---------------------------- MODULE Spec2Model ----------------------------
(* Model of lib/meta.py (MyPaint): _get_versions() and                     *)
(* _get_release_info_script().  Strings are sequences of one-character     *)
(* strings; a Python value that may be None, a str or an int is a record   *)
(* [kind, s, n].                                                           *)
EXTENDS Integers, Sequences, FiniteSets, TLC

VARIABLES
    MYPAINT_VERSION,     \* the module-level constant (line 116)
    gitprefix,           \* the parameter of _get_versions
    release_info,        \* the file ./release_info: [exists, text]
    has_git,             \* os.path.isdir(".git")
    describe,            \* what `git describe` does: [ok, out]
    pc,                  \* position in _get_versions / the caller
    base_version, formal_version, ceremonial_version,
    git_desc, nrevs, objsha, dirty,
    result,              \* [kind: "none" | "return" | "RuntimeError" | "ValueError", triple]
    describe_calls,      \* number of subprocess.check_output invocations
    stderr_lines,        \* number of lines printed to sys.stderr
    script,              \* the text returned by _get_release_info_script
    run,                 \* 1: first resolution; 2: resolution inside the export
    first_result         \* the triple of run 1 that was written to release_info

vars == <<MYPAINT_VERSION, gitprefix, release_info, has_git, describe, pc,
          base_version, formal_version, ceremonial_version,
          git_desc, nrevs, objsha, dirty, result, describe_calls,
          stderr_lines, script, run, first_result>>

---------------------------------------------------------------------------
(* Python values *)

PyNone == [kind |-> "None", s |-> <<>>, n |-> 0]
PyStr(x) == [kind |-> "str", s |-> x, n |-> 0]
PyInt(k) == [kind |-> "int", s |-> <<>>, n |-> k]

\* Python truth value of None / str / int
Truthy(v) ==
    CASE v.kind = "None" -> FALSE
      [] v.kind = "str" -> Len(v.s) > 0
      [] v.kind = "int" -> v.n # 0

---------------------------------------------------------------------------
(* Characters *)

UpperChars == <<"A","B","C","D","E","F","G","H","I","J","K","L","M",
                "N","O","P","Q","R","S","T","U","V","W","X","Y","Z">>
LowerChars == <<"a","b","c","d","e","f","g","h","i","j","k","l","m",
                "n","o","p","q","r","s","t","u","v","w","x","y","z">>
DigitChars == <<"0","1","2","3","4","5","6","7","8","9">>

\* re.IGNORECASE compares the lower-cased characters
LowerOf == [c \in {UpperChars[i] : i \in DOMAIN UpperChars} |->
               LowerChars[CHOOSE i \in DOMAIN UpperChars : UpperChars[i] = c]]
Lower(c) == IF c \in DOMAIN LowerOf THEN LowerOf[c] ELSE c

\* \d
Digits == {DigitChars[i] : i \in DOMAIN DigitChars}
IsDigit(c) == c \in Digits

\* [0-9a-f] under re.IGNORECASE
IsHex(c) == IsDigit(c) \/ Lower(c) \in {"a","b","c","d","e","f"}

\* string.whitespace, as str.strip() removes it
IsSpace(c) == c \in {" ", "\t", "\n", "\r"}

DigitValue(c) == (CHOOSE i \in DOMAIN DigitChars : DigitChars[i] = c) - 1

\* int(s) for a string of decimal digits
RECURSIVE IntOf(_)
IntOf(s) ==
    IF s = <<>> THEN 0
    ELSE 10 * IntOf(SubSeq(s, 1, Len(s) - 1)) + DigitValue(s[Len(s)])

\* the decimal digits of n >= 0, as git prints a commit count
RECURSIVE ToDigits(_)
ToDigits(n) ==
    IF n < 10 THEN <<DigitChars[n + 1]>>
    ELSE ToDigits(n \div 10) \o <<DigitChars[(n % 10) + 1]>>

\* str.strip()
RECURSIVE Strip(_)
Strip(s) ==
    IF s = <<>> THEN s
    ELSE IF IsSpace(s[1]) THEN Strip(Tail(s))
    ELSE IF IsSpace(s[Len(s)]) THEN Strip(SubSeq(s, 1, Len(s) - 1))
    ELSE s

\* "x in s" for a one-character x
Contains(s, c) == \E i \in DOMAIN s : s[i] = c

\* sep.join(parts)
RECURSIVE Join(_, _)
Join(sep, parts) ==
    IF parts = <<>> THEN <<>>
    ELSE IF Len(parts) = 1 THEN parts[1]
    ELSE parts[1] \o sep \o Join(sep, Tail(parts))

---------------------------------------------------------------------------
(* The two regular expressions of _get_versions *)

\* case-insensitive match of the literal text lit at position p of s
\* (p is the index of the last character already consumed)
LiteralAt(s, p, lit) ==
    /\ p + Len(lit) <= Len(s)
    /\ \A i \in 1..Len(lit) : Lower(s[p + i]) = Lower(lit[i])

\* k characters after position p all satisfy the class
DigitsAt(s, p, k) == p + k <= Len(s) /\ \A i \in 1..k : IsDigit(s[p + i])
HexAt(s, p, k) == p + k <= Len(s) /\ \A i \in 1..k : IsHex(s[p + i])

\* "$": the end of the string, or just before a final newline
AtEnd(s, p) == p = Len(s) \/ (p = Len(s) - 1 /\ s[Len(s)] = "\n")

\* characters consumed by group 1 "(?:-(\d+))?" capturing k1 digits,
\* and by group 2 "(?:-g([0-9a-f]+))?" capturing k2 hex digits
Width1(k1) == IF k1 = 0 THEN 0 ELSE 1 + k1
Width2(k2) == IF k2 = 0 THEN 0 ELSE 2 + k2
Width3(k3) == IF k3 = 0 THEN 0 ELSE 6

\* the ways parse_pattern1 can match s: <<k1, k2, k3>> with k = 0 for a
\* group that did not take part
ParsesFrom(s, p0) ==
    {k \in (0..(Len(s) - p0)) \X (0..(Len(s) - p0)) \X (0..1) :
        /\ (k[1] > 0 => LiteralAt(s, p0, <<"-">>) /\ DigitsAt(s, p0 + 1, k[1]))
        /\ (k[2] > 0 => /\ LiteralAt(s, p0 + Width1(k[1]), <<"-", "g">>)
                        /\ HexAt(s, p0 + Width1(k[1]) + 2, k[2]))
        /\ (k[3] > 0 => LiteralAt(s, p0 + Width1(k[1]) + Width2(k[2]),
                                  <<"-", "d", "i", "r", "t", "y">>))
        /\ AtEnd(s, p0 + Width1(k[1]) + Width2(k[2]) + Width3(k[3]))}

Parses1(base, s) ==
    IF LiteralAt(s, 0, <<"v">> \o base) THEN ParsesFrom(s, 1 + Len(base)) ELSE {}

\* greedy quantifiers: the backtracking matcher prefers the longest group 1,
\* then the longest group 2, then group 3 present
Prefer(a, b) ==
    \/ a[1] > b[1]
    \/ a[1] = b[1] /\ a[2] > b[2]
    \/ a[1] = b[1] /\ a[2] = b[2] /\ a[3] >= b[3]

\* parse_re1.match(git_desc): [matched, nrevs, objsha, dirty]
NoParse == <<-1, -1, -1>>
FirstParse(ps) ==
    IF ps = {} THEN NoParse ELSE CHOOSE a \in ps : \A b \in ps : Prefer(a, b)

\* the groups of the match k of s, whose prefix "v<base>" ends at p0
Groups(s, p0, k) ==
    IF k = NoParse
    THEN [matched |-> FALSE, nrevs |-> PyNone, objsha |-> PyNone, dirty |-> PyNone]
    ELSE [matched |-> TRUE,
          nrevs |-> IF k[1] = 0 THEN PyNone
                    ELSE PyStr(SubSeq(s, p0 + 2, p0 + 1 + k[1])),
          objsha |-> IF k[2] = 0 THEN PyNone
                     ELSE PyStr(SubSeq(s, p0 + Width1(k[1]) + 3,
                                       p0 + Width1(k[1]) + 2 + k[2])),
          dirty |-> IF k[3] = 0 THEN PyNone
                    ELSE PyStr(SubSeq(s, p0 + Width1(k[1]) + Width2(k[2]) + 2,
                                      p0 + Width1(k[1]) + Width2(k[2]) + 6))]

Match1(base, s) == Groups(s, 1 + Len(base), FirstParse(Parses1(base, s)))

\* mutant: the {7,} bound forgotten
Match2AnyLength(s) ==
    IF Len(s) >= 1 /\ HexAt(s, 0, Len(s))
    THEN [matched |-> TRUE, objsha |-> PyStr(s)]
    ELSE [matched |-> FALSE, objsha |-> PyNone]

\* parse_re2.match(git_desc): ^([0-9a-f]{7,})$
MinShaLen == 7
Match2(s) ==
    LET body == IF s # <<>> /\ s[Len(s)] = "\n"
                THEN SubSeq(s, 1, Len(s) - 1) ELSE s
        ok(t) == Len(t) >= MinShaLen /\ HexAt(t, 0, Len(t))
    IN  IF ok(s) THEN [matched |-> TRUE, objsha |-> PyStr(s)]
        ELSE IF ok(body) THEN [matched |-> TRUE, objsha |-> PyStr(body)]
        ELSE [matched |-> FALSE, objsha |-> PyNone]

---------------------------------------------------------------------------
(* "%r" of a str, and the reading of a string literal by exec *)

SQ == "'"
DQ == "\""
BS == "\\"

\* the quote character repr() chooses
ReprQuote(s) == IF Contains(s, SQ) /\ ~Contains(s, DQ) THEN DQ ELSE SQ

\* mutant: the quote character not escaped
ReprCharQuoteKept(c, q) ==
    CASE c = BS -> <<BS, c>>
      [] c = "\t" -> <<BS, "t">>
      [] c = "\n" -> <<BS, "n">>
      [] c = "\r" -> <<BS, "r">>
      [] OTHER -> <<c>>

\* repr() of one character inside quotes q
ReprChar(c, q) ==
    CASE c = q \/ c = BS -> <<BS, c>>
      [] c = "\t" -> <<BS, "t">>
      [] c = "\n" -> <<BS, "n">>
      [] c = "\r" -> <<BS, "r">>
      [] OTHER -> <<c>>

RECURSIVE ReprBody(_, _)
ReprBody(s, q) ==
    IF s = <<>> THEN <<>> ELSE ReprChar(s[1], q) \o ReprBody(Tail(s), q)

\* "%r" % (s,)
Repr(s) == <<ReprQuote(s)>> \o ReprBody(s, ReprQuote(s)) \o <<ReprQuote(s)>>

\* index of the quote closing the literal opened with q, scanning from j;
\* 0 when the line ends first
RECURSIVE LiteralEnd(_, _, _)
LiteralEnd(text, j, q) ==
    IF j > Len(text) \/ text[j] = "\n" THEN 0
    ELSE IF text[j] = BS THEN LiteralEnd(text, j + 2, q)
    ELSE IF text[j] = q THEN j
    ELSE LiteralEnd(text, j + 1, q)

\* the character an escape sequence \c stands for; an unknown escape keeps
\* its backslash
Unescape(c) ==
    CASE c = BS -> <<BS>>
      [] c = SQ -> <<SQ>>
      [] c = DQ -> <<DQ>>
      [] c = "t" -> <<"\t">>
      [] c = "n" -> <<"\n">>
      [] c = "r" -> <<"\r">>
      [] OTHER -> <<BS, c>>

\* the value of the inside of a string literal
RECURSIVE LiteralValue(_)
LiteralValue(body) ==
    IF body = <<>> THEN <<>>
    ELSE IF body[1] = BS /\ Len(body) >= 2
         THEN Unescape(body[2]) \o LiteralValue(SubSeq(body, 3, Len(body)))
    ELSE <<body[1]>> \o LiteralValue(Tail(body))

KEY_BASE == "MYPAINT_VERSION_BASE"
KEY_FORMAL == "MYPAINT_VERSION_FORMAL"
KEY_CEREMONIAL == "MYPAINT_VERSION_CEREMONIAL"

\* a name token of the release_info text is one element of the sequence
IsName(tok) == tok \in {KEY_BASE, KEY_FORMAL, KEY_CEREMONIAL}

\* "exec relinfo_fp in relinfo": the statements NAME=<string literal>,
\* one per line, from position i on, bound in order into env;
\* [ok |-> FALSE] stands for the SyntaxError of anything else
RECURSIVE Exec(_, _, _)

\* the statement at i, whose literal closes at e
ExecLiteral(text, i, e, env) ==
    IF e = 0 \/ (e < Len(text) /\ text[e + 1] # "\n")
    THEN [ok |-> FALSE, env |-> env]
    ELSE Exec(text, e + 1,
              (text[i] :> LiteralValue(SubSeq(text, i + 3, e - 1))) @@ env)

Exec(text, i, env) ==
    IF i > Len(text) THEN [ok |-> TRUE, env |-> env]
    ELSE IF text[i] = "\n" THEN Exec(text, i + 1, env)
    ELSE IF ~(IsName(text[i]) /\ i + 2 <= Len(text) /\ text[i + 1] = "="
              /\ text[i + 2] \in {SQ, DQ})
         THEN [ok |-> FALSE, env |-> env]
    ELSE ExecLiteral(text, i, LiteralEnd(text, i + 3, text[i + 2]), env)

\* relinfo.get(key, default)
DictGet(env, key, default) == IF key \in DOMAIN env THEN env[key] ELSE default

EmptyDict == [k \in {} |-> <<>>]

---------------------------------------------------------------------------
(* _get_release_info_script *)

\* "NAME=%r\n" % (value,)
ScriptLine(name, value) == <<name, "=">> \o Repr(value) \o <<"\n">>

\* the text _get_release_info_script builds from the triple
ReleaseInfoScript(triple) ==
    ScriptLine(KEY_BASE, triple[1])
        \o ScriptLine(KEY_FORMAL, triple[2])
        \o ScriptLine(KEY_CEREMONIAL, triple[3])

---------------------------------------------------------------------------
(* The steps of _get_versions, as functions of the values they read *)

\* mutant: .git looked at first
BranchGitFirst(isfile, isdir) ==
    IF isdir THEN "git" ELSE IF isfile THEN "release_info" ELSE "none"

\* the if / elif / else over release_info and .git (lines 150, 167, 260)
Branch(isfile, isdir) ==
    IF isfile THEN "release_info" ELSE IF isdir THEN "git" ELSE "none"

\* match1 / match2 / raise RuntimeError (lines 192-218)
ParseGroups(m1, m2) ==
        IF m1.matched
        THEN [kind |-> "match1", nrevs |-> m1.nrevs,
              objsha |-> m1.objsha, dirty |-> m1.dirty]
        ELSE IF m2.matched
        THEN [kind |-> "match2", nrevs |-> PyInt(0),
              objsha |-> m2.objsha, dirty |-> PyNone]
        ELSE [kind |-> "RuntimeError", nrevs |-> PyNone,
              objsha |-> PyNone, dirty |-> PyNone]

ParseDescribe(base, desc) == ParseGroups(Match1(base, desc), Match2(desc))

\* mutant: only the truth value of nrevs tested
HasRevsByTruth(nr) == Truthy(nr)

\* "nrevs and int(nrevs)>0" (line 221)
HasRevs(nr) ==
    Truthy(nr) /\ (IF nr.kind = "str" THEN IntOf(nr.s) ELSE nr.n) > 0

\* mutant: the test looks for the wrong character
IsFinalByDot(base) == ~Contains(base, ".")

\* '"-" not in base_version' (line 222)
IsFinal(base) == ~Contains(base, "-")

\* mutant: the count formatted as a number
FormalWithRevsAsNumber(base, nr) == base \o <<".">> \o ToDigits(IntOf(nr.s))

\* "%s.%s" % (base_version, nrevs) (line 240)
FormalWithRevs(base, nr) == base \o <<".">> \o nr.s

\* mutant: the captured text appended instead of "dirty"
BuildIdsCaptured(prefix, sha, drt) ==
    (IF Truthy(sha) THEN <<prefix \o <<".">> \o sha.s>> ELSE <<>>)
        \o (IF Truthy(drt) THEN <<drt.s>> ELSE <<>>)

\* build_ids (lines 249-253)
BuildIds(prefix, sha, drt) ==
    (IF Truthy(sha) THEN <<prefix \o <<".">> \o sha.s>> ELSE <<>>)
        \o (IF Truthy(drt) THEN << <<"d", "i", "r", "t", "y">> >> ELSE <<>>)

\* ceremonial_version after lines 254-259
CeremonialWithBuild(formal, ceremonial, ids) ==
    IF ids # <<>> THEN formal \o <<"+">> \o Join(<<".">>, ids)
    ELSE ceremonial

\* formal_version + "+unknown" (line 149)
Unknown(formal) == formal \o <<"+", "u", "n", "k", "n", "o", "w", "n">>

---------------------------------------------------------------------------
(* The inputs: the constant, the working directory, git's answer *)

\* base versions: the constant of line 116 and the shapes the docstring
\* names (lines 55-57)
V_BETA == <<"1", ".", "2", ".", "0", "-", "b", "e", "t", "a", ".", "0">>
V_FINAL == <<"1", ".", "2", ".", "0">>
V_ALPHA == <<"1", ".", "1", ".", "1", "-", "a", "l", "p", "h", "a">>
BaseVersions == {V_BETA, V_FINAL, V_ALPHA}

\* gitprefix: the default (line 122) and the one the docstring shows (line 84)
GitPrefixes == {<<"g", "i", "t", "e", "x", "p", "o", "r", "t">>, <<"g", "i", "t">>}

\* largest commit count git reports in the model
MaxRevs == 2

\* the commit counts as git may print them: 0..MaxRevs, a two-digit count,
\* and the same with a leading zero
RevStrings ==
    LET plain == {ToDigits(n) : n \in (0..MaxRevs) \cup {10 + MaxRevs}}
    IN  plain \cup {<<"0">> \o d : d \in plain}

\* abbreviated object ids, in both cases, one shorter than pattern 2 accepts
Shas == {<<"1", "2", "3", "a", "b", "c", "d">>,
         <<"1", "A", "2", "B", "3", "C", "4", "D">>,
         <<"a", "b", "c", "1", "2">>}

DirtyMarks == {<<"d", "i", "r", "t", "y">>, <<"D", "I", "R", "T", "Y">>}

Absent == <<>>

\* the text "tag[-n][-gsha][-dirty]" of git describe; Absent leaves a part out
DescribeText(tag, n, sha, drt) ==
    tag \o (IF n = Absent THEN <<>> ELSE <<"-">> \o n)
        \o (IF sha = Absent THEN <<>> ELSE <<"-", "g">> \o sha)
        \o (IF drt = Absent THEN <<>> ELSE <<"-">> \o drt)

Tags == {<<"v">> \o b : b \in BaseVersions} \cup {<<"V">> \o b : b \in BaseVersions}

\* outputs that are neither a tag description nor an object id
Garbage == {<<>>,
            <<"g", "a", "r", "b", "a", "g", "e", "-", "x", "y", "z">>,
            <<"v", "1", "x", "2", "x", "0">>,
            <<"v", "1", ".", "2", ".", "0", "-">>,
            <<"v", "1", ".", "2", ".", "0", "-", "g">>,
            <<"v", "1", ".", "2", ".", "0", "-", "1", "-", "g", "x", "y">>,
            <<"v", "1", ".", "2", ".", "0", "-", "d", "i", "r", "t", "y", "-", "1">>}

\* what git describe --tags --long --dirty --always may print (line 169),
\* each followed by the newline git ends its output with
DescribeOutputs ==
    {d \o <<"\n">> : d \in
        {DescribeText(tag, n, sha, drt) :
            tag \in Tags, n \in RevStrings \cup {Absent},
            sha \in Shas \cup {Absent}, drt \in DirtyMarks \cup {Absent}}
        \cup {DescribeText(sha, Absent, Absent, drt) :
                sha \in Shas, drt \in DirtyMarks \cup {Absent}}
        \cup Garbage}

DescribeFailure == [ok |-> FALSE, out |-> <<>>]
DescribeResults == {DescribeFailure} \cup {[ok |-> TRUE, out |-> d] : d \in DescribeOutputs}

\* git's answers tried next to a release_info file
ExportDescribes ==
    {DescribeFailure,
     [ok |-> TRUE, out |-> <<"g", "a", "r", "b", "a", "g", "e", "\n">>],
     [ok |-> TRUE, out |-> DescribeText(<<"v">> \o V_FINAL, <<"3">>,
                                        <<"1", "2", "3", "a", "b", "c", "d">>,
                                        Absent) \o <<"\n">>]}

\* the triple release.sh would have exported for base, four commits on
ExportedTriple(base) ==
    LET formal == IF IsFinal(base) THEN base ELSE base \o <<".", "4">>
    IN  <<base, formal, formal \o <<"+", "g", "i", "t", "e", "x", "p", "o", "r", "t",
                                    ".", "1", "2", "3", "a", "b", "c", "d">>>>

\* a triple whose strings need quoting and escaping
QuotedTriple ==
    << <<"1", ".", "2">>, <<"1", ".", "2", SQ, "x">>,
       <<"1", ".", "2", SQ, "x", "+", DQ, BS, "n", BS>> >>

\* the release_info text, as Python source, that binds QuotedTriple
QuotedFile ==
    <<KEY_BASE, "=", SQ, "1", ".", "2", SQ, "\n",
      KEY_FORMAL, "=", DQ, "1", ".", "2", SQ, "x", DQ, "\n",
      KEY_CEREMONIAL, "=", SQ, "1", ".", "2", BS, SQ, "x", "+", DQ,
          BS, BS, "n", BS, BS, SQ, "\n">>

\* a release_info text binding the names in keys to the strings of triple
ReleaseInfoText(triple, keys) ==
    (IF KEY_BASE \in keys THEN ScriptLine(KEY_BASE, triple[1]) ELSE <<>>)
        \o (IF KEY_FORMAL \in keys THEN ScriptLine(KEY_FORMAL, triple[2]) ELSE <<>>)
        \o (IF KEY_CEREMONIAL \in keys THEN ScriptLine(KEY_CEREMONIAL, triple[3]) ELSE <<>>)

\* the release_info files of the model: every subset of the three bindings of
\* an exported triple, the file of QuotedTriple, a file in double quotes,
\* and a file that is not Python
ReleaseInfoFiles(base) ==
    {ReleaseInfoText(ExportedTriple(base), keys) :
        keys \in SUBSET {KEY_BASE, KEY_FORMAL, KEY_CEREMONIAL}}
    \cup {QuotedFile,
          <<KEY_FORMAL, "=", DQ>> \o base \o <<DQ, "\n">>,
          <<KEY_BASE, "=", SQ>> \o base \o <<"\n">>}

NoFile == [exists |-> FALSE, text |-> <<>>]
NoTriple == << <<>>, <<>>, <<>> >>
NoResult == [kind |-> "none", triple |-> NoTriple]

Init ==
    /\ MYPAINT_VERSION \in BaseVersions
    /\ gitprefix \in GitPrefixes
    /\ \/ /\ release_info \in {[exists |-> TRUE, text |-> f] :
                                  f \in ReleaseInfoFiles(MYPAINT_VERSION)}
          /\ has_git \in BOOLEAN
          /\ describe \in ExportDescribes
       \/ /\ release_info = NoFile
          /\ has_git = TRUE
          /\ describe \in DescribeResults
       \/ /\ release_info = NoFile
          /\ has_git = FALSE
          /\ describe = DescribeFailure
    /\ pc = "start"
    /\ base_version = <<>>
    /\ formal_version = <<>>
    /\ ceremonial_version = <<>>
    /\ git_desc = <<>>
    /\ nrevs = PyNone
    /\ objsha = PyNone
    /\ dirty = PyNone
    /\ result = NoResult
    /\ describe_calls = 0
    /\ stderr_lines = 0
    /\ script = <<>>
    /\ run = 1
    /\ first_result = NoTriple

env_vars == <<MYPAINT_VERSION, gitprefix, release_info, has_git, describe>>
caller_vars == <<script, run, first_result>>
parse_vars == <<git_desc, nrevs, objsha, dirty>>

---------------------------------------------------------------------------
(* _get_versions *)

\* lines 147-149
Fallbacks ==
    /\ pc = "start"
    /\ base_version' = MYPAINT_VERSION
    /\ formal_version' = MYPAINT_VERSION
    /\ ceremonial_version' = Unknown(MYPAINT_VERSION)
    /\ pc' = "branch"
    /\ UNCHANGED <<env_vars, caller_vars, parse_vars, result, describe_calls,
                   stderr_lines>>

\* lines 155-166, with the dictionary exec filled
UseReleaseInfo(relinfo) ==
    IF relinfo.ok
    THEN /\ base_version' = DictGet(relinfo.env, KEY_BASE, base_version)
         /\ formal_version' = DictGet(relinfo.env, KEY_FORMAL, formal_version)
         /\ ceremonial_version' =
                DictGet(relinfo.env, KEY_CEREMONIAL, ceremonial_version)
         /\ pc' = "return"
         /\ UNCHANGED result
    ELSE /\ result' = [kind |-> "SyntaxError", triple |-> NoTriple]
         /\ pc' = "raised"
         /\ UNCHANGED <<base_version, formal_version, ceremonial_version>>

\* lines 150-166
ReadReleaseInfo ==
    /\ pc = "branch"
    /\ Branch(release_info.exists, has_git) = "release_info"
    /\ UseReleaseInfo(Exec(release_info.text, 1, EmptyDict))
    /\ UNCHANGED <<env_vars, caller_vars, parse_vars, describe_calls, stderr_lines>>

\* mutant: the failure of git describe not caught
DescribeFailsUncaught ==
    /\ pc = "branch"
    /\ Branch(release_info.exists, has_git) = "git"
    /\ ~describe.ok
    /\ describe_calls' = describe_calls + 1
    /\ result' = [kind |-> "CalledProcessError", triple |-> NoTriple]
    /\ pc' = "raised"
    /\ UNCHANGED <<env_vars, caller_vars, parse_vars, stderr_lines,
                   base_version, formal_version, ceremonial_version>>

\* lines 167-176: git describe fails, the error is printed
DescribeFails ==
    /\ pc = "branch"
    /\ Branch(release_info.exists, has_git) = "git"
    /\ ~describe.ok
    /\ describe_calls' = describe_calls + 1
    /\ stderr_lines' = stderr_lines + 1
    /\ pc' = "return"
    /\ UNCHANGED <<env_vars, caller_vars, parse_vars, result,
                   base_version, formal_version, ceremonial_version>>

\* lines 167-181: git describe succeeds
DescribeSucceeds ==
    /\ pc = "branch"
    /\ Branch(release_info.exists, has_git) = "git"
    /\ describe.ok
    /\ describe_calls' = describe_calls + 1
    /\ git_desc' = Strip(describe.out)
    /\ base_version' = MYPAINT_VERSION
    /\ formal_version' = MYPAINT_VERSION
    /\ ceremonial_version' = MYPAINT_VERSION
    /\ pc' = "parse"
    /\ UNCHANGED <<env_vars, caller_vars, nrevs, objsha, dirty, result, stderr_lines>>

\* lines 199-218, with the outcome m of the two matches
UseMatch(m) ==
    IF m.kind = "RuntimeError"
    THEN /\ result' = [kind |-> "RuntimeError", triple |-> NoTriple]
         /\ pc' = "raised"
         /\ UNCHANGED <<nrevs, objsha, dirty>>
    ELSE /\ nrevs' = m.nrevs
         /\ objsha' = m.objsha
         /\ dirty' = m.dirty
         /\ pc' = "revs"
         /\ UNCHANGED result

\* lines 184-218
Parse ==
    /\ pc = "parse"
    /\ UseMatch(ParseDescribe(base_version, git_desc))
    /\ UNCHANGED <<env_vars, caller_vars, git_desc, describe_calls, stderr_lines,
                   base_version, formal_version, ceremonial_version>>

\* lines 221-244
IncorporateRevs ==
    /\ pc = "revs"
    /\ IF HasRevs(nrevs)
       THEN IF IsFinal(base_version)
            THEN /\ result' = [kind |-> "ValueError", triple |-> NoTriple]
                 /\ pc' = "raised"
                 /\ UNCHANGED <<formal_version, ceremonial_version>>
            ELSE /\ formal_version' = FormalWithRevs(base_version, nrevs)
                 /\ ceremonial_version' = formal_version'
                 /\ pc' = "build"
                 /\ UNCHANGED result
       ELSE /\ pc' = "build"
            /\ UNCHANGED <<formal_version, ceremonial_version, result>>
    /\ UNCHANGED <<env_vars, caller_vars, parse_vars, describe_calls, stderr_lines,
                   base_version>>

\* lines 249-259
CollectBuildIds ==
    /\ pc = "build"
    /\ ceremonial_version' =
           CeremonialWithBuild(formal_version, ceremonial_version,
                               BuildIds(gitprefix, objsha, dirty))
    /\ pc' = "return"
    /\ UNCHANGED <<env_vars, caller_vars, parse_vars, describe_calls, stderr_lines,
                   base_version, formal_version, result>>

\* lines 260-261
NoInformation ==
    /\ pc = "branch"
    /\ Branch(release_info.exists, has_git) = "none"
    /\ pc' = "return"
    /\ UNCHANGED <<env_vars, caller_vars, parse_vars, describe_calls, stderr_lines,
                   base_version, formal_version, ceremonial_version, result>>

\* line 262
Return ==
    /\ pc = "return"
    /\ result' = [kind |-> "return",
                  triple |-> <<base_version, formal_version, ceremonial_version>>]
    /\ pc' = "returned"
    /\ UNCHANGED <<env_vars, caller_vars, parse_vars, describe_calls, stderr_lines,
                   base_version, formal_version, ceremonial_version>>

---------------------------------------------------------------------------
(* _get_release_info_script and the export made from its output *)

\* lines 273-277, on the triple _get_versions returned
GetReleaseInfoScript ==
    /\ pc = "returned"
    /\ script' = ReleaseInfoScript(result.triple)
    /\ pc' = "script"
    /\ UNCHANGED <<env_vars, parse_vars, describe_calls, stderr_lines, run,
                   first_result, base_version, formal_version,
                   ceremonial_version, result>>

\* lines 280-285: the printed script becomes the release_info file of an
\* export, and _get_versions is called again there, in any surroundings
Export ==
    /\ pc = "script"
    /\ run = 1
    /\ release_info' = [exists |-> TRUE, text |-> script]
    /\ has_git' \in BOOLEAN
    /\ describe' \in ExportDescribes
    /\ gitprefix' \in GitPrefixes
    /\ first_result' = result.triple
    /\ run' = 2
    /\ pc' = "start"
    /\ base_version' = <<>>
    /\ formal_version' = <<>>
    /\ ceremonial_version' = <<>>
    /\ git_desc' = <<>>
    /\ nrevs' = PyNone
    /\ objsha' = PyNone
    /\ dirty' = PyNone
    /\ result' = NoResult
    /\ describe_calls' = 0
    /\ stderr_lines' = 0
    /\ UNCHANGED <<MYPAINT_VERSION, script>>

Next ==
    \/ Fallbacks
    \/ ReadReleaseInfo
    \/ DescribeFails
    \/ DescribeSucceeds
    \/ Parse
    \/ IncorporateRevs
    \/ CollectBuildIds
    \/ NoInformation
    \/ Return
    \/ GetReleaseInfoScript
    \/ Export

Spec == Init /\ [][Next]_vars

---------------------------------------------------------------------------
(* Vocabulary of the properties, stated on the inputs and the result alone *)

\* git's output without the newline that ends it
Chomp(s) == IF s # <<>> /\ s[Len(s)] = "\n" THEN SubSeq(s, 1, Len(s) - 1) ELSE s
Desc == Chomp(describe.out)

\* no release_info, a .git directory, and git describe succeeded
GitPath == ~release_info.exists /\ has_git /\ describe.ok

SameIgnoringCase(a, b) ==
    Len(a) = Len(b) /\ \A i \in 1..Len(a) : Lower(a[i]) = Lower(b[i])

\* the output is v<base>[-n][-g<sha>][-dirty] with exactly these parts
ShapeA(n, sha, drt) ==
    SameIgnoringCase(Desc, DescribeText(<<"v">> \o MYPAINT_VERSION, n, sha, drt))

HexDigits == {"0", "1", "2", "3", "4", "5", "6", "7", "8", "9",
              "a", "b", "c", "d", "e", "f", "A", "B", "C", "D", "E", "F"}

\* the output is a bare run of seven or more hex digits
ShapeB == Len(Desc) >= 7 /\ \A i \in 1..Len(Desc) : Desc[i] \in HexDigits

AnyRevs == RevStrings \cup {Absent}
AnySha == Shas \cup {Absent}
AnyDirty == DirtyMarks \cup {Absent}

\* a digit string denotes a number > 0 iff one of its digits is not 0
Positive(n) == \E i \in 1..Len(n) : n[i] # "0"

Hyphenated(b) == \E i \in 1..Len(b) : b[i] = "-"

IsPrefix(a, b) == Len(a) <= Len(b) /\ SubSeq(b, 1, Len(a)) = a
EndsWith(a, suffix) ==
    Len(suffix) <= Len(a) /\ SubSeq(a, Len(a) - Len(suffix) + 1, Len(a)) = suffix

Returned == result.kind = "return"
Fatal == result.kind \in {"RuntimeError", "ValueError"}
PlusUnknown == <<"+", "u", "n", "k", "n", "o", "w", "n">>
FallbackTriple ==
    <<MYPAINT_VERSION, MYPAINT_VERSION, MYPAINT_VERSION \o PlusUnknown>>

---------------------------------------------------------------------------
(* Properties *)

\* C1: on the git path, an output of shape A with a commit count > 0 and a
\* base version without hyphen ends in ValueError, whatever the count, the
\* object id and the dirty flag; no triple is returned.
C1_FinalWithRevsIsFatal ==
    \A n \in RevStrings, sha \in AnySha, drt \in AnyDirty :
        (/\ GitPath
         /\ ~Hyphenated(MYPAINT_VERSION)
         /\ ShapeA(n, sha, drt) /\ Positive(n)
         /\ pc \notin {"start", "branch", "parse", "revs"})
        => (pc = "raised" /\ result = [kind |-> "ValueError", triple |-> NoTriple])

C1_Witness ==
    /\ GitPath /\ MYPAINT_VERSION = V_FINAL /\ pc = "raised"
    /\ ShapeA(<<"0", "2">>, <<"1", "2", "3", "a", "b", "c", "d">>, <<"d", "i", "r", "t", "y">>)

\* C2: on the git path, an output that has neither shape A nor shape B ends
\* in RuntimeError and no triple is returned; a description of the tag of
\* another base version is such an output.
C2_UnrecognizedIsFatal ==
    (/\ GitPath
     /\ ~ShapeB
     /\ \A n \in AnyRevs, sha \in AnySha, drt \in AnyDirty : ~ShapeA(n, sha, drt)
     /\ pc \notin {"start", "branch", "parse"})
    => (pc = "raised" /\ result = [kind |-> "RuntimeError", triple |-> NoTriple])

C2_Witness ==
    /\ GitPath /\ MYPAINT_VERSION = V_BETA /\ pc = "raised"
    /\ result.kind = "RuntimeError"
    /\ Desc = DescribeText(<<"v">> \o V_FINAL, <<"2">>,
                           <<"1", "2", "3", "a", "b", "c", "d">>, Absent)

\* C3: on the git path, with a hyphen in the base version and an output of
\* shape A whose commit count n is > 0, resolution returns, the formal
\* version is base + "." + n with n as printed, and the base version is the
\* constant.
C3_FormalIsBaseDotRevs ==
    \A n \in RevStrings, sha \in AnySha, drt \in AnyDirty :
        (/\ GitPath
         /\ Hyphenated(MYPAINT_VERSION)
         /\ ShapeA(n, sha, drt) /\ Positive(n)
         /\ pc \notin {"start", "branch", "parse", "revs"})
        => /\ pc # "raised"
           /\ base_version = MYPAINT_VERSION
           /\ formal_version = MYPAINT_VERSION \o <<".">> \o n
           /\ Returned => /\ result.triple[1] = MYPAINT_VERSION
                          /\ result.triple[2] = MYPAINT_VERSION \o <<".">> \o n

C3_Witness ==
    /\ GitPath /\ MYPAINT_VERSION = V_BETA /\ Returned
    /\ ShapeA(<<"0", "1", "2">>, Absent, Absent)
    /\ result.triple[2] = V_BETA \o <<".", "0", "1", "2">>

\* C4 as claimed: whenever an accepted output carries the dirty flag, the
\* returned ceremonial version ends with ".dirty".
C4_DirtyEndsWithDotDirty ==
    \A n \in AnyRevs, sha \in AnySha, drt \in DirtyMarks :
        (GitPath /\ ShapeA(n, sha, drt) /\ Returned)
        => EndsWith(result.triple[3], <<".", "d", "i", "r", "t", "y">>)

\* C4 as amended: whenever an accepted output carries the dirty flag, the
\* returned ceremonial version ends with "dirty": with ".dirty" when an
\* object id was captured, and it is formal + "+dirty" when none was.
C4_DirtyEndsWithDirty ==
    \A n \in AnyRevs, sha \in AnySha, drt \in DirtyMarks :
        (GitPath /\ ShapeA(n, sha, drt) /\ Returned)
        => IF sha # Absent
           THEN EndsWith(result.triple[3], <<".", "d", "i", "r", "t", "y">>)
           ELSE result.triple[3] = result.triple[2] \o <<"+", "d", "i", "r", "t", "y">>

C4_Witness ==
    /\ GitPath /\ Returned
    /\ ShapeA(<<"1">>, <<"1", "2", "3", "a", "b", "c", "d">>, <<"D", "I", "R", "T", "Y">>)
    /\ EndsWith(result.triple[3], <<"d", ".", "d", "i", "r", "t", "y">>)

\* C5: in every returned triple, base is a prefix of formal and formal is a
\* prefix of ceremonial.
C5_EachExtendsItsPredecessor ==
    Returned => /\ IsPrefix(result.triple[1], result.triple[2])
                /\ IsPrefix(result.triple[2], result.triple[3])

\* C6: when the script made from a returned triple is the release_info file
\* of the next run, that run returns the same triple, whatever .git and git
\* describe are then.
C6_RoundTrip ==
    (run = 2 /\ pc \notin {"start", "branch"})
    => (pc # "raised" /\ (Returned => result.triple = first_result))

C6_Witness ==
    /\ run = 2 /\ Returned /\ has_git /\ describe.ok
    /\ first_result = QuotedTriple
    /\ result.triple = QuotedTriple

\* C7: without release_info, with .git, when git describe fails, resolution
\* does not raise and returns (base, base, base + "+unknown"), as it does
\* when neither release_info nor .git is there.
C7_DescribeFailureFallsBack ==
    (/\ ~release_info.exists
     /\ (has_git => ~describe.ok)
     /\ pc \notin {"start", "branch"})
    => /\ pc # "raised"
       /\ <<base_version, formal_version, ceremonial_version>> = FallbackTriple
       /\ Returned => result.triple = FallbackTriple

C7_Witness ==
    /\ ~release_info.exists /\ has_git /\ ~describe.ok
    /\ Returned /\ result.triple = FallbackTriple /\ stderr_lines = 1

C9_CeremonialHasBuildPart ==
    (~release_info.exists /\ Returned)
    => /\ \E i \in 1..(Len(result.triple[3]) - 1) : result.triple[3][i] = "+"
       /\ ~Contains(result.triple[2], "+")

\* C10: with a release_info file, git describe is never run, neither
\* RuntimeError nor ValueError is raised, and the triple is read from the
\* file and the constant alone; git describe runs at most once in a run,
\* and only without release_info and with .git.
C10_ReleaseInfoTakesPrecedence ==
    /\ describe_calls <= 1
    /\ describe_calls = 1 => (~release_info.exists /\ has_git)
    /\ release_info.exists =>
          /\ describe_calls = 0
          /\ ~Fatal
          /\ \A keys \in SUBSET {KEY_BASE, KEY_FORMAL, KEY_CEREMONIAL},
                tr \in {ExportedTriple(MYPAINT_VERSION), QuotedTriple} :
                (Returned /\ release_info.text = ReleaseInfoText(tr, keys))
                => result.triple =
                     <<IF KEY_BASE \in keys THEN tr[1] ELSE FallbackTriple[1],
                       IF KEY_FORMAL \in keys THEN tr[2] ELSE FallbackTriple[2],
                       IF KEY_CEREMONIAL \in keys THEN tr[3] ELSE FallbackTriple[3]>>

C10_Witness ==
    /\ run = 1 /\ release_info.exists /\ has_git /\ describe.ok
    /\ release_info.text = ReleaseInfoText(ExportedTriple(V_BETA), {KEY_CEREMONIAL})
    /\ Returned /\ describe_calls = 0
    /\ result.triple = <<V_BETA, V_BETA, ExportedTriple(V_BETA)[3]>>

===========================================================================
